---- MODULE Spec2Model ----
(***************************************************************************)
(* Model of the daily energy-mix update run (scripts/update_data.py):      *)
(* fetch -> per region: validate, aggregate, snapshot, history -> write    *)
(* the raw file -> write the processed file.                               *)
(*                                                                         *)
(* Periods are ISO date strings in the program; here the integer p stands  *)
(* for the date "2024-01-0p", whose string order is the integer order.     *)
(* Strings compared by the program (sort keys, group keys) are compared    *)
(* through StrRank, their position in Python's code-point order.           *)
(* A percentage is held in hundredths of a percent (3333 is 33.33).        *)
(***************************************************************************)
EXTENDS Integers, Sequences, FiniteSets, TLC

VARIABLES pc, raw_data_df, region_i, processed_data_df, region_df_list,
          frontend_data, error, raw_file, processed_file

vars == <<pc, raw_data_df, region_i, processed_data_df, region_df_list,
          frontend_data, error, raw_file, processed_file>>

(***************************************************************************)
(* Configuration (dailygrid_backend/config.py)                             *)
(***************************************************************************)
SUPPORTED_REGIONS == <<"US48", "CISO">>

DEFAULT_TIMEZONE == "Central"

(***************************************************************************)
(* Type taxonomy (dailygrid_backend/types.py, not part of the sources at   *)
(* hand: modelled from the specification's description of it).            *)
(***************************************************************************)
RENEWABLE_TYPES == {"Solar"}

FOSSIL_FUEL_TYPES == {"Coal"}

VALID_GENERATION_TYPES == {"Solar", "Coal", "Nuclear"}

DISPLAY_TYPE_GROUPS == <<"Renewables", "Fossil Fuels", "Total", "Carbon Free", "Other">>

VALID_TYPE_GROUPS ==
    [g \in {"Renewables", "Fossil Fuels", "Total", "Carbon Free", "Other"} |->
        CASE g = "Renewables"   -> {"Renewables"}
          [] g = "Fossil Fuels" -> {"Fossil Fuels"}
          [] g = "Total"        -> {"Total"}
          [] g = "Carbon Free"  -> {"Solar", "Nuclear"}
          [] g = "Other"        -> {"Other"}]

(***************************************************************************)
(* The rows the upstream provider returns.                                 *)
(***************************************************************************)
RawTypeNames == {"Solar", "Coal", "Nuclear", "Other"}

FuelCode(t) ==
    CASE t = "Solar"   -> "SUN"
      [] t = "Coal"    -> "COL"
      [] t = "Nuclear" -> "NUC"
      [] t = "Other"   -> "OTH"

RespondentName(r) ==
    CASE r = "US48" -> "United States Lower 48"
      [] r = "CISO" -> "California Independent System Operator"

RawRow(p, r, t, z, v) ==
    [period |-> p, respondent |-> r, respondent_name |-> RespondentName(r),
     type_name |-> t, fueltype |-> FuelCode(t), timezone |-> z,
     timezone_description |-> z, value |-> v, value_units |-> "megawatthours"]

\* Every string the program orders, in Python's (code point) string order.
SortedStrings ==
    <<"CISO", "COL", "California Independent System Operator", "Central", "Coal",
      "Eastern", "Fossil Fuels", "NUC", "Nuclear", "OTH", "Other", "Renewables",
      "SUN", "Solar", "Total", "US48", "United States Lower 48", "megawatthours">>

StrRank(s) == CHOOSE i \in 1..Len(SortedStrings) : SortedStrings[i] = s


(***************************************************************************)
(* Table helpers (what the pandas operations used by the script do).       *)
(***************************************************************************)
\* df[df["respondent"] == region]: the rows of one region, in table order.
RegionRows(df, region) == SelectSeq(df, LAMBDA r : r.respondent = region)

\* df[df["type_name"].isin(types)]
FilterTypes(df, types) == SelectSeq(df, LAMBDA r : r.type_name \in types)

\* The columns a category is grouped by.
GroupKey(r) ==
    <<r.period, r.respondent, r.respondent_name, r.timezone,
      r.timezone_description, r.value_units>>

\* Order of two group keys: the period, then the five strings, left to right.
KeyRanks(k) ==
    <<k[1], StrRank(k[2]), StrRank(k[3]), StrRank(k[4]), StrRank(k[5]), StrRank(k[6])>>

RECURSIVE LexLess(_, _)
LexLess(a, b) ==
    IF a = <<>> \/ b = <<>> THEN FALSE
    ELSE IF Head(a) # Head(b) THEN Head(a) < Head(b)
    ELSE LexLess(Tail(a), Tail(b))

\* groupby sorts the group keys ascending.
RECURSIVE SortedKeys(_)
SortedKeys(S) ==
    IF S = {} THEN <<>>
    ELSE LET m == CHOOSE k \in S :
                     \A o \in S \ {k} : LexLess(KeyRanks(k), KeyRanks(o))
         IN  <<m>> \o SortedKeys(S \ {m})

\* .agg({"value": "sum"}) of one group: the exact integer sum of its rows.
RECURSIVE SumGroup(_, _)
SumGroup(df, key) ==
    IF df = <<>> THEN 0
    ELSE (IF GroupKey(Head(df)) = key THEN Head(df).value ELSE 0)
         + SumGroup(Tail(df), key)

\* Filter, group by the key columns, sum the values, name the category.
Aggregate(df, types, name) ==
    LET f    == FilterTypes(df, types)
        keys == SortedKeys({GroupKey(f[i]) : i \in 1..Len(f)})
    IN  [i \in 1..Len(keys) |->
            [period |-> keys[i][1], respondent |-> keys[i][2],
             respondent_name |-> keys[i][3], type_name |-> name,
             fueltype |-> name, timezone |-> keys[i][4],
             timezone_description |-> keys[i][5],
             value |-> SumGroup(f, keys[i]), value_units |-> keys[i][6]]]

add_renewables(df) == Aggregate(df, RENEWABLE_TYPES, "Renewables")

add_fossil_fuels(df) == Aggregate(df, FOSSIL_FUEL_TYPES, "Fossil Fuels")

\* A slip that totals the table after the renewables were appended to it, so
\* that a synthetic row feeds the total.
add_total_double_count(df) ==
    Aggregate(df \o add_renewables(df), VALID_GENERATION_TYPES \cup {"Renewables"}, "Total")

add_total(df) == Aggregate(df, VALID_GENERATION_TYPES, "Total")

\* sort_values(by=["period", "fueltype", "type_name"]): a stable sort.
SortKey(r) == <<r.period, StrRank(r.fueltype), StrRank(r.type_name)>>

RECURSIVE InsertSorted(_, _)
InsertSorted(sorted, r) ==
    IF sorted = <<>> THEN <<r>>
    ELSE IF LexLess(SortKey(r), SortKey(Head(sorted)))
         THEN <<r>> \o sorted
         ELSE <<Head(sorted)>> \o InsertSorted(Tail(sorted), r)

RECURSIVE SortValues(_)
SortValues(df) ==
    IF df = <<>> THEN <<>>
    ELSE InsertSorted(SortValues(SubSeq(df, 1, Len(df) - 1)), df[Len(df)])

\* A slip that leaves the sort out.
CombinedTableUnsorted(region_df) ==
    region_df \o add_renewables(region_df) \o add_fossil_fuels(region_df)
              \o add_total(region_df)

\* The combined table of one region: its rows and the three categories, sorted.
CombinedTable(region_df) ==
    SortValues(region_df \o add_renewables(region_df)
                         \o add_fossil_fuels(region_df)
                         \o add_total(region_df))

(***************************************************************************)
(* Snapshot extractor                                                      *)
(***************************************************************************)
\* NoPeriod stands for the NaN that max() gives on an empty column: it equals
\* the period of no row.
NoPeriod == 0

RECURSIVE MaxPeriodOf(_)
MaxPeriodOf(df) ==
    IF df = <<>> THEN NoPeriod
    ELSE LET m == MaxPeriodOf(Tail(df))
         IN  IF Head(df).period > m THEN Head(df).period ELSE m

\* A slip that returns the period of the last row instead of the maximum.
get_latest_period_last_row(df) == IF df = <<>> THEN NoPeriod ELSE df[Len(df)].period

\* df["period"].max()
get_latest_period(df) == MaxPeriodOf(df)

\* round(n / d) for d > 0, exact .5 ties to the even integer (Python's round).
RoundHalfEven(n, d) ==
    LET q == n \div d
        r == n % d
    IN  IF 2 * r < d THEN q
        ELSE IF 2 * r > d THEN q + 1
        ELSE IF q % 2 = 0 THEN q ELSE q + 1

\* A slip that rounds exact .5 ties up.
GigawatthoursHalfUp(value) == (value + 500) \div 1000

\* int(round(value / 1000, 0))
Gigawatthours(value) == RoundHalfEven(value, 1000)

\* A slip that divides the total by the value.
PercentInverted(type_value, total_value) ==
    IF total_value > 0 /\ type_value > 0
    THEN RoundHalfEven(total_value * 10000, type_value) ELSE 0

\* round(float(type_value / total_value) * 100, 2), in hundredths of a percent.
Percent(type_value, total_value) ==
    IF total_value > 0 THEN RoundHalfEven(type_value * 10000, total_value) ELSE 0

\* The rows of the latest period in the given timezone.
LatestSlice(df, timezone) ==
    SelectSeq(df, LAMBDA r : r.period = get_latest_period(df) /\ r.timezone = timezone)

\* A slip that takes the last row of a subtype instead of the first.
LastValueOrZero(slice, subtype) ==
    LET subtype_df == SelectSeq(slice, LAMBDA r : r.type_name = subtype)
    IN  IF subtype_df = <<>> THEN 0 ELSE subtype_df[Len(subtype_df)].value

\* subtype_df["value"].values[0] when subtype_df is not empty, else nothing added.
FirstValueOrZero(slice, subtype) ==
    LET subtype_df == SelectSeq(slice, LAMBDA r : r.type_name = subtype)
    IN  IF subtype_df = <<>> THEN 0 ELSE subtype_df[1].value

RECURSIVE SumSubtypes(_, _)
SumSubtypes(slice, subtypes) ==
    IF subtypes = {} THEN 0
    ELSE LET t == CHOOSE x \in subtypes : TRUE
         IN  FirstValueOrZero(slice, t) + SumSubtypes(slice, subtypes \ {t})

\* A slip that takes a missing total for zero instead of failing.
get_latest_type_values_zero_total(df, type_name, timezone) ==
    [raised |-> FALSE,
     value |-> SumSubtypes(LatestSlice(df, timezone), VALID_TYPE_GROUPS[type_name]),
     percent |-> 0]

\* get_latest_type_values: raised = TRUE stands for the IndexError of
\* .values[0] on an empty selection of "Total" rows.
get_latest_type_values(df, type_name, timezone) ==
    LET latest_period_df == LatestSlice(df, timezone)
        type_value       == SumSubtypes(latest_period_df, VALID_TYPE_GROUPS[type_name])
        total_df         == SelectSeq(latest_period_df, LAMBDA r : r.type_name = "Total")
    IN  IF total_df = <<>>
        THEN [raised |-> TRUE, value |-> 0, percent |-> 0]
        ELSE [raised |-> FALSE, value |-> type_value,
              percent |-> Percent(type_value, total_df[1].value)]

\* The "latest" object of one region (lines 175-186).
LatestEntry(df, type_name) ==
    LET got == get_latest_type_values(df, type_name, DEFAULT_TIMEZONE)
    IN  [megawatthours |-> got.value, gigawatthours |-> Gigawatthours(got.value),
         percent |-> got.percent, source |-> type_name]

DisplayGroups == {DISPLAY_TYPE_GROUPS[i] : i \in 1..Len(DISPLAY_TYPE_GROUPS)}

SnapshotRaises(df) ==
    \E g \in DisplayGroups : get_latest_type_values(df, g, DEFAULT_TIMEZONE).raised

BuildLatest(df) ==
    [date |-> get_latest_period(df),
     groups |-> [g \in DisplayGroups |-> LatestEntry(df, g)]]

(***************************************************************************)
(* History builder                                                         *)
(***************************************************************************)
\* df["period"].unique(): the distinct periods in order of first appearance.
RECURSIVE UniquePeriods(_, _)
UniquePeriods(df, seen) ==
    IF df = <<>> THEN <<>>
    ELSE IF Head(df).period \in seen THEN UniquePeriods(Tail(df), seen)
    ELSE <<Head(df).period>> \o UniquePeriods(Tail(df), seen \cup {Head(df).period})

\* The "Total" rows of one date.
DateTotals(df, date) ==
    SelectSeq(df, LAMBDA r : r.period = date /\ r.type_name = "Total")

\* .values[0] on an empty selection raises IndexError.
HistoryRaises(df) ==
    LET all_dates == UniquePeriods(df, {})
    IN  \E i \in 1..Len(all_dates) : DateTotals(df, all_dates[i]) = <<>>

\* A slip that takes the last matching row of a date instead of the first.
HistoryEntryLastMatch(df, date) ==
    LET totals == DateTotals(df, date)
        total  == totals[Len(totals)].value
    IN  [date |-> date, megawatthours |-> total, gigawatthours |-> Gigawatthours(total)]

HistoryEntry(df, date) ==
    LET total == DateTotals(df, date)[1].value
    IN  [date |-> date, megawatthours |-> total, gigawatthours |-> Gigawatthours(total)]

BuildHistory(df) ==
    LET all_dates == UniquePeriods(df, {})
    IN  [i \in 1..Len(all_dates) |-> HistoryEntry(df, all_dates[i])]

(***************************************************************************)
(* The tables the fetch may return (the provider is a black box).          *)
(***************************************************************************)
MaxRows == 2

Periods == {1, 2}

BoundedSeqs(S, n) == UNION {[1..k -> S] : k \in 0..n}

\* One region over both timezones.
TimezoneRows ==
    {RawRow(p, "US48", t, z, v) :
        p \in Periods, t \in {"Solar", "Coal"}, z \in {"Central", "Eastern"},
        v \in {1, 2}}

\* One region and period, every type, values of both signs, repeated rows
\* allowed.
SignedRows ==
    {RawRow(2, "US48", t, "Central", v) : t \in RawTypeNames, v \in {-1, 1, 2}}

\* One region, values around the rounding boundaries of the unit conversion.
BoundaryRows ==
    {RawRow(1, "US48", t, "Central", v) :
        t \in {"Solar", "Coal"}, v \in {499, 500, 1500, 2500}}

\* Both regions, each present or absent, with or without a computable total.
RegionMixRows ==
    {RawRow(1, r, t, z, 1) :
        r \in {"US48", "CISO"}, t \in {"Solar", "Other"}, z \in {"Central", "Eastern"}}

OtherRegionTail == <<RawRow(1, "CISO", "Solar", "Central", 1)>>

FetchedTables ==
    {t \o OtherRegionTail :
        t \in BoundedSeqs(TimezoneRows, MaxRows) \cup BoundedSeqs(SignedRows, MaxRows)
              \cup BoundedSeqs(BoundaryRows, MaxRows)}
    \cup BoundedSeqs(RegionMixRows, MaxRows)

(***************************************************************************)
(* The run: main()                                                         *)
(***************************************************************************)
Region == SUPPORTED_REGIONS[region_i]

Init ==
    /\ pc = "fetch"
    /\ raw_data_df = <<>>
    /\ region_i = 1
    /\ processed_data_df = <<>>
    /\ region_df_list = <<>>
    /\ frontend_data = <<>>
    /\ error = "none"
    /\ raw_file = "unwritten"
    /\ processed_file = "unwritten"

Raise(e) ==
    /\ error' = e
    /\ pc' = "failed"

\* Lines 140-149: the fetch and the column preparation. An empty response has
\* no "value" column (and no string column names), so the preparation raises.
Fetch ==
    /\ pc = "fetch"
    /\ \E t \in FetchedTables :
          /\ raw_data_df' = t
          /\ IF t = <<>> THEN Raise("PrepError")
             ELSE pc' = "validate" /\ error' = error
    /\ UNCHANGED <<region_i, processed_data_df, region_df_list, frontend_data,
                   raw_file, processed_file>>

\* A slip that only checks that the table has rows at all.
RegionFoundInAnyRow(df, region) == df # <<>>

\* region in raw_data_df["respondent"].unique()
RegionFound(df, region) == \E i \in 1..Len(df) : df[i].respondent = region

\* Lines 154-157: the region must be among the respondents of the table.
ValidateRegion ==
    /\ pc = "validate"
    /\ IF ~RegionFound(raw_data_df, Region)
       THEN Raise("ValueError")
       ELSE pc' = "aggregate" /\ error' = error
    /\ UNCHANGED <<raw_data_df, region_i, processed_data_df, region_df_list,
                   frontend_data, raw_file, processed_file>>

\* Lines 159-172: the three categories, concatenated with the rows and sorted.
AggregateRegion ==
    /\ pc = "aggregate"
    /\ processed_data_df' = CombinedTable(RegionRows(raw_data_df, Region))
    /\ region_df_list' = Append(region_df_list, processed_data_df')
    /\ pc' = "snapshot"
    /\ UNCHANGED <<raw_data_df, region_i, frontend_data, error, raw_file,
                   processed_file>>

\* Lines 174-186: the latest period and the figures of every display group.
Snapshot ==
    /\ pc = "snapshot"
    /\ IF SnapshotRaises(processed_data_df)
       THEN Raise("IndexError") /\ frontend_data' = frontend_data
       ELSE /\ frontend_data' =
                  Append(frontend_data,
                         [region |-> Region, latest |-> BuildLatest(processed_data_df),
                          history |-> <<>>])
            /\ pc' = "history"
            /\ error' = error
    /\ UNCHANGED <<raw_data_df, region_i, processed_data_df, region_df_list,
                   raw_file, processed_file>>

\* Lines 188-205: the total of every date, then the next region or the writes.
History ==
    /\ pc = "history"
    /\ IF HistoryRaises(processed_data_df)
       THEN Raise("IndexError") /\ UNCHANGED <<frontend_data, region_i>>
       ELSE /\ frontend_data' =
                  [frontend_data EXCEPT
                      ![Len(frontend_data)].history = BuildHistory(processed_data_df)]
            /\ error' = error
            /\ IF region_i < Len(SUPPORTED_REGIONS)
               THEN region_i' = region_i + 1 /\ pc' = "validate"
               ELSE region_i' = region_i /\ pc' = "write_raw"
    /\ UNCHANGED <<raw_data_df, processed_data_df, region_df_list, raw_file,
                   processed_file>>

\* write_json: mkdir and open may fail before the file is touched; open
\* truncates it, so a failure of json.dump leaves it partly written.
WriteOutcomes == {"ok", "open_failed", "dump_failed"}

write_json(before, outcome) ==
    CASE outcome = "ok"          -> "written"
      [] outcome = "open_failed" -> before
      [] outcome = "dump_failed" -> "partial"

\* Lines 207-209
WriteRaw ==
    /\ pc = "write_raw"
    /\ \E outcome \in WriteOutcomes :
          /\ raw_file' = write_json(raw_file, outcome)
          /\ IF outcome = "ok" THEN pc' = "write_processed" /\ error' = error
             ELSE Raise("OSError")
    /\ UNCHANGED <<raw_data_df, region_i, processed_data_df, region_df_list,
                   frontend_data, processed_file>>

\* A slip that swallows a failed write of the processed file.
WriteProcessedSwallowed ==
    /\ pc = "write_processed"
    /\ \E outcome \in WriteOutcomes :
          processed_file' = write_json(processed_file, outcome)
    /\ pc' = "done"
    /\ UNCHANGED <<raw_data_df, region_i, processed_data_df, region_df_list,
                   frontend_data, raw_file, error>>

\* Lines 211-212
WriteProcessed ==
    /\ pc = "write_processed"
    /\ \E outcome \in WriteOutcomes :
          /\ processed_file' = write_json(processed_file, outcome)
          /\ IF outcome = "ok" THEN pc' = "done" /\ error' = error
             ELSE Raise("OSError")
    /\ UNCHANGED <<raw_data_df, region_i, processed_data_df, region_df_list,
                   frontend_data, raw_file>>

Next ==
    \/ Fetch
    \/ ValidateRegion
    \/ AggregateRegion
    \/ Snapshot
    \/ History
    \/ WriteRaw
    \/ WriteProcessed

Spec == Init /\ [][Next]_vars

(***************************************************************************)
(* Helpers of the properties: written over index sets, independently of    *)
(* the operators above.                                                    *)
(***************************************************************************)
RECURSIVE SumAt(_, _)
\* The sum of the values of the rows of df at the indices I.
SumAt(df, I) ==
    IF I = {} THEN 0
    ELSE LET i == CHOOSE x \in I : TRUE
         IN  df[i].value + SumAt(df, I \ {i})

\* The largest period among the rows of a non-empty table.
TopPeriod(df) ==
    CHOOSE p \in {df[i].period : i \in 1..Len(df)} :
        \A i \in 1..Len(df) : df[i].period <= p

RowKey(r) ==
    [period |-> r.period, respondent |-> r.respondent,
     respondent_name |-> r.respondent_name, timezone |-> r.timezone,
     timezone_description |-> r.timezone_description, value_units |-> r.value_units]

\* The indices of the fetched rows of a region with the given key and a type in F.
RawAt(region, key, F) ==
    {i \in 1..Len(raw_data_df) :
        /\ raw_data_df[i].respondent = region
        /\ RowKey(raw_data_df[i]) = key
        /\ raw_data_df[i].type_name \in F}

Categories == {"Renewables", "Fossil Fuels", "Total"}

FilterOf(c) ==
    CASE c = "Renewables"   -> RENEWABLE_TYPES
      [] c = "Fossil Fuels" -> FOSSIL_FUEL_TYPES
      [] c = "Total"        -> VALID_GENERATION_TYPES

\* The regions whose combined table has been built, by position.
Built == 1..Len(region_df_list)

RegionOf(n) == SUPPORTED_REGIONS[n]

\* The indices of the rows of the combined table of region n named c.
CategoryAt(n, c) ==
    {j \in 1..Len(region_df_list[n]) : region_df_list[n][j].type_name = c}

(***************************************************************************)
(* C1: for every region and every category C of {Renewables, Fossil Fuels, *)
(* Total}, each key that has a fetched row with a type in C's filter set   *)
(* gets exactly one row named C (type_name = fueltype = C) whose value is  *)
(* the sum over exactly the fetched rows of that key with a type in the    *)
(* filter set; no other row named C exists, so no category feeds another.  *)
(***************************************************************************)
C1_CategorySums ==
    \A n \in Built : \A c \in Categories :
        LET df   == region_df_list[n]
            keys == {RowKey(raw_data_df[i]) :
                        i \in {x \in 1..Len(raw_data_df) :
                                  /\ raw_data_df[x].respondent = RegionOf(n)
                                  /\ raw_data_df[x].type_name \in FilterOf(c)}}
        IN  /\ \A k \in keys :
                  LET rows == {j \in CategoryAt(n, c) : RowKey(df[j]) = k}
                  IN  /\ Cardinality(rows) = 1
                      /\ \A j \in rows :
                            /\ df[j].fueltype = c
                            /\ df[j].value = SumAt(raw_data_df, RawAt(RegionOf(n), k, FilterOf(c)))
            /\ \A j \in CategoryAt(n, c) : RowKey(df[j]) \in keys

\* A total that sums two rows of one key next to a row outside the valid types
\* and a renewables row of the same key.
C1_Witness ==
    \E n \in Built : \E j \in CategoryAt(n, "Total") :
        LET k == RowKey(region_df_list[n][j])
        IN  /\ Cardinality(RawAt(RegionOf(n), k, VALID_GENERATION_TYPES)) >= 2
            /\ RawAt(RegionOf(n), k, RENEWABLE_TYPES) # {}
            /\ RawAt(RegionOf(n), k, FOSSIL_FUEL_TYPES) # {}

(***************************************************************************)
(* C2                                                                      *)
(***************************************************************************)
\* The configured regions without a row in the fetched table, by position.
Absent ==
    {n \in 1..Len(SUPPORTED_REGIONS) :
        \A i \in 1..Len(raw_data_df) : raw_data_df[i].respondent # RegionOf(n)}

Fetched == pc # "fetch"

Ended == pc \in {"done", "failed"}

NothingWritten == raw_file = "unwritten" /\ processed_file = "unwritten"

\* C2 as claimed: if a configured region (at any position) has no row in the
\* fetched table, the run fails with the data-availability error (the
\* ValueError of line 157) and writes neither file.
C2_AbsentRegionRaisesValueError ==
    (Fetched /\ Absent # {}) =>
        /\ pc \notin {"write_raw", "write_processed", "done"}
        /\ NothingWritten
        /\ (pc = "failed" => error = "ValueError")

\* C2 as amended: if a configured region has no row in the fetched table, the
\* run never reaches the writes, it ends failed with neither file written, and
\* the failure is the data-availability error exactly when the table is not
\* empty and every region configured before the first absent one was
\* processed without failing; otherwise it is the failure met earlier (the
\* preparation of an empty table, or a missing Total row of an earlier region).
C2_AbsentRegionFails ==
    (Fetched /\ Absent # {}) =>
        LET first == CHOOSE n \in Absent : \A m \in Absent : n <= m
        IN  /\ pc \notin {"write_raw", "write_processed", "done"}
            /\ NothingWritten
            /\ region_i <= first
            /\ (pc = "failed" =>
                  /\ error \in {"ValueError", "IndexError", "PrepError"}
                  /\ (error = "ValueError") <=> (raw_data_df # <<>> /\ region_i = first)
                  /\ (error = "PrepError") <=> (raw_data_df = <<>>))

\* The second region is absent after the first was processed successfully.
C2_Witness ==
    /\ pc = "failed"
    /\ error = "ValueError"
    /\ Absent = {2}
    /\ Len(frontend_data) = 1
    /\ frontend_data[1].history # <<>>
    /\ NothingWritten

\* No "Total" row among the rows of the latest period and configured timezone.
NoLatestTotal(df) ==
    LET top == TopPeriod(df)
    IN  \A j \in 1..Len(df) :
           ~(/\ df[j].period = top
             /\ df[j].timezone = DEFAULT_TIMEZONE
             /\ df[j].type_name = "Total")

(***************************************************************************)
(* C3: the snapshot fails with a caller-visible error whenever the rows of *)
(* the latest period in the configured timezone hold no "Total" row; no    *)
(* result is produced for the region (the missing total is never taken for *)
(* zero), and the failure ends the run: a failed run takes no further step.*)
(***************************************************************************)
C3_MissingTotalFails ==
    [][/\ (pc = "snapshot" /\ NoLatestTotal(processed_data_df)) =>
            /\ pc' = "failed"
            /\ error' = "IndexError"
            /\ frontend_data' = frontend_data
       /\ pc = "failed" => FALSE]_vars

\* The latest period has rows, none of them in the configured timezone.
C3_Witness ==
    /\ pc = "failed"
    /\ error = "IndexError"
    /\ Len(frontend_data) < Len(region_df_list)
    /\ NoLatestTotal(processed_data_df)
    /\ \E j \in 1..Len(processed_data_df) :
          /\ processed_data_df[j].period = TopPeriod(processed_data_df)
          /\ processed_data_df[j].type_name = "Total"

(***************************************************************************)
(* C4                                                                      *)
(***************************************************************************)
\* The indices of the "Total" rows of a date in a table.
TotalsAt(df, date) ==
    {j \in 1..Len(df) : df[j].period = date /\ df[j].type_name = "Total"}

DatesOf(df) == {df[j].period : j \in 1..Len(df)}

LatestAt(df) ==
    LET top == TopPeriod(df)
    IN  {j \in 1..Len(df) : df[j].period = top /\ df[j].timezone = DEFAULT_TIMEZONE}

\* The value of the first "Total" row of the latest period and timezone.
LatestTotal(df) ==
    LET T == {j \in LatestAt(df) : df[j].type_name = "Total"}
    IN  df[CHOOSE j \in T : \A o \in T : j <= o].value

\* C5 as claimed: for every display group, 0 <= percent <= 100 when the
\* Total of the latest period and timezone is > 0, and percent = 0.0 when
\* it is 0, for any integer values and any group.
C5_PercentBounded ==
    \A n \in 1..Len(frontend_data) :
        LET total == LatestTotal(region_df_list[n])
        IN  \A g \in DisplayGroups :
               LET percent == frontend_data[n].latest.groups[g].percent
               IN  /\ total > 0 => (0 <= percent /\ percent <= 10000)
                   /\ total = 0 => percent = 0

\* A group whose figure cannot exceed the total: its members are fetched
\* types inside VALID_GENERATION_TYPES, or it is one category whose filter
\* set is inside VALID_GENERATION_TYPES.
WithinTotal(g) ==
    \/ VALID_TYPE_GROUPS[g] \subseteq VALID_GENERATION_TYPES
    \/ \E c \in Categories :
          VALID_TYPE_GROUPS[g] = {c} /\ FilterOf(c) \subseteq VALID_GENERATION_TYPES

\* The rows of the latest period and timezone share one aggregation key and
\* hold no negative value.
PlainSlice(df) ==
    LET L == LatestAt(df)
    IN  /\ Cardinality({RowKey(df[j]) : j \in L}) <= 1
        /\ \A j \in L : df[j].value >= 0

\* C5 as amended: percent = 0.0 whenever the Total is <= 0; and when the
\* Total is > 0, 0 <= percent <= 100 for every display group whose members
\* are fetched types inside VALID_GENERATION_TYPES or one category with such
\* a filter set, provided the rows of the latest period and timezone hold no
\* negative value and share one aggregation key.
C5_PercentBoundedWithinTotal ==
    \A n \in 1..Len(frontend_data) :
        LET df         == region_df_list[n]
            total      == LatestTotal(df)
            percent(g) == frontend_data[n].latest.groups[g].percent
        IN  /\ total <= 0 => \A g \in DisplayGroups : percent(g) = 0
            /\ (total > 0 /\ PlainSlice(df)) =>
                  \A g \in DisplayGroups :
                      WithinTotal(g) => (0 <= percent(g) /\ percent(g) <= 10000)

\* A group strictly between 0 and 100 percent, and a total of 0 in a table
\* with a negative value.
C5_Witness ==
    /\ \E n \in 1..Len(frontend_data) : \E g \in DisplayGroups :
          /\ WithinTotal(g)
          /\ PlainSlice(region_df_list[n])
          /\ frontend_data[n].latest.groups[g].percent = 3333

C5_WitnessZeroTotal ==
    \E n \in 1..Len(frontend_data) :
        /\ LatestTotal(region_df_list[n]) = 0
        /\ frontend_data[n].latest.groups["Renewables"].megawatthours # 0
        /\ frontend_data[n].latest.groups["Renewables"].percent = 0

(***************************************************************************)
(* C6                                                                      *)
(***************************************************************************)
\* C6 as claimed: the value of a display group is the sum over ALL rows of
\* the latest period and configured timezone whose type is a member of the
\* group, several rows of one member type all being summed.
C6_GroupValueSumsAllRows ==
    \A n \in 1..Len(frontend_data) : \A g \in DisplayGroups :
        LET df == region_df_list[n]
        IN  frontend_data[n].latest.groups[g].megawatthours =
               SumAt(df, {j \in LatestAt(df) : df[j].type_name \in VALID_TYPE_GROUPS[g]})

\* The first row of a member type among the rows of the latest period and
\* timezone: for a fetched type the first in the order of the fetched table,
\* for a category the first in the order of the combined table.
FirstRowValue(n, t) ==
    LET df == region_df_list[n]
        top == TopPeriod(df)
        R  == {i \in 1..Len(raw_data_df) :
                  /\ raw_data_df[i].respondent = RegionOf(n)
                  /\ raw_data_df[i].period = top
                  /\ raw_data_df[i].timezone = DEFAULT_TIMEZONE
                  /\ raw_data_df[i].type_name = t}
        S  == {j \in LatestAt(df) : df[j].type_name = t}
    IN  IF t \in Categories
        THEN IF S = {} THEN 0 ELSE df[CHOOSE j \in S : \A o \in S : j <= o].value
        ELSE IF R = {} THEN 0
             ELSE raw_data_df[CHOOSE i \in R : \A o \in R : i <= o].value

RECURSIVE SumFirstRows(_, _)
SumFirstRows(n, types) ==
    IF types = {} THEN 0
    ELSE LET t == CHOOSE x \in types : TRUE
         IN  FirstRowValue(n, t) + SumFirstRows(n, types \ {t})

\* C6 as amended: the value of a display group is the sum, over the member
\* types of the group, of the value of the FIRST row of the latest period and
\* configured timezone with that type (first in the fetched order); a member
\* type with no such row contributes 0 and raises no error, and of several
\* rows of one member type only the first contributes.
C6_GroupValueSumsFirstRows ==
    \A n \in 1..Len(frontend_data) : \A g \in DisplayGroups :
        frontend_data[n].latest.groups[g].megawatthours =
            SumFirstRows(n, VALID_TYPE_GROUPS[g])

\* A group with one member absent and the other present in two rows of
\* different values.
C6_Witness ==
    \E n \in 1..Len(frontend_data) :
        LET df == region_df_list[n]
        IN  /\ \E a, b \in LatestAt(df) :
                  /\ df[a].type_name = "Solar"
                  /\ df[b].type_name = "Solar"
                  /\ df[a].value # df[b].value
            /\ \A j \in LatestAt(df) : df[j].type_name # "Nuclear"
            /\ frontend_data[n].latest.groups["Carbon Free"].megawatthours # 0

(***************************************************************************)
(* C7: when the run is done, every configured region has its entry, and    *)
(* its history holds exactly one entry per distinct period of the region's *)
(* combined table, in strictly ascending period order, each with the value *)
(* of a "Total" row of that period (of the only one, when there is one).   *)
(***************************************************************************)
C7_HistoryPerPeriodAscending ==
    pc = "done" =>
        /\ Len(frontend_data) = Len(SUPPORTED_REGIONS)
        /\ \A n \in 1..Len(frontend_data) :
              LET h  == frontend_data[n].history
                  df == region_df_list[n]
              IN  /\ frontend_data[n].region = RegionOf(n)
                  /\ {h[k].date : k \in 1..Len(h)} = DatesOf(df)
                  /\ Len(h) = Cardinality(DatesOf(df))
                  /\ \A k \in 1..(Len(h) - 1) : h[k].date < h[k + 1].date
                  /\ \A k \in 1..Len(h) :
                        \E j \in TotalsAt(df, h[k].date) :
                            h[k].megawatthours = df[j].value

\* The rows of a region were fetched latest period first, and its history
\* has two entries.
C7_Witness ==
    /\ pc = "done"
    /\ Len(frontend_data[1].history) = 2
    /\ raw_data_df[1].period > raw_data_df[2].period
    /\ raw_data_df[1].respondent = raw_data_df[2].respondent

(***************************************************************************)
(* C8                                                                      *)
(***************************************************************************)
BothWritten == raw_file = "written" /\ processed_file = "written"

\* C8 as claimed: however the run ends (done, or failed with any error, a
\* failure while writing included), either both files are fully written or
\* neither is written.
C8_WritesAtomic == Ended => (BothWritten \/ NothingWritten)

\* C8 as amended: a run that completes has fully written both files, and a
\* run that fails before the write phase (empty table, missing region,
\* missing Total row in the snapshot or history of any region) has written
\* neither; the processed file is touched only after the raw file is fully
\* written. A failure while writing is the one case that can leave the raw
\* file written (or partly written) without the processed file.
C8_WritesAllOrNothingBeforeWritePhase ==
    /\ pc = "done" => (BothWritten /\ error = "none")
    /\ (pc = "failed" /\ error # "OSError") => NothingWritten
    /\ pc \notin {"write_raw", "write_processed", "done", "failed"} => NothingWritten
    /\ processed_file # "unwritten" => raw_file = "written"
    /\ (Ended /\ ~BothWritten /\ ~NothingWritten) => (pc = "failed" /\ error = "OSError")

\* The second region failed for a missing Total after the first was
\* processed; nothing was written.
C8_Witness ==
    /\ pc = "failed"
    /\ error = "IndexError"
    /\ Len(region_df_list) = 2
    /\ Len(frontend_data) >= 1
    /\ NothingWritten

C8_WitnessDone == pc = "done" /\ BothWritten

(***************************************************************************)
(* C9: get_latest_period is the maximum period of a table whatever the     *)
(* order of its rows; every region's latest.date is the maximum period of  *)
(* that region's rows, and every display-group figure of latest is what    *)
(* the rows of that period alone give (rows of other periods do not count).*)
(***************************************************************************)
C9_LatestIsMaxPeriod ==
    /\ raw_data_df # <<>> => get_latest_period(raw_data_df) = TopPeriod(raw_data_df)
    /\ \A n \in 1..Len(frontend_data) :
          LET df   == region_df_list[n]
              top  == CHOOSE p \in Periods :
                         /\ \E i \in 1..Len(raw_data_df) :
                               raw_data_df[i].respondent = RegionOf(n) /\ raw_data_df[i].period = p
                         /\ \A i \in 1..Len(raw_data_df) :
                               raw_data_df[i].respondent = RegionOf(n) => raw_data_df[i].period <= p
              only == SelectSeq(df, LAMBDA r : r.period = top)
          IN  /\ frontend_data[n].latest.date = top
              /\ \A g \in DisplayGroups :
                    frontend_data[n].latest.groups[g] = LatestEntry(only, g)

\* The latest period is not the period of the last fetched row, and an
\* earlier period holds rows the latest figures must leave out.
C9_Witness ==
    \E n \in 1..Len(frontend_data) :
        /\ frontend_data[n].latest.date = 2
        /\ raw_data_df[1].period = 2
        /\ raw_data_df[2].period = 1
        /\ raw_data_df[2].respondent = RegionOf(n)
        /\ raw_data_df[1].respondent = RegionOf(n)
        /\ raw_data_df[Len(raw_data_df)].period = 1

\* g is m / 1000 rounded to the nearest integer, exact .5 ties to even.
NearestTiesToEven(m, g) ==
    LET dist == IF 1000 * g >= m THEN 1000 * g - m ELSE m - 1000 * g
    IN  dist <= 500 /\ (dist = 500 => g % 2 = 0)

(***************************************************************************)
(* C10: in every snapshot entry and every history entry, gigawatthours is  *)
(* megawatthours / 1000 rounded to the nearest integer, exact .5 ties to   *)
(* the even integer: |1000 * gigawatthours - megawatthours| <= 500, and    *)
(* gigawatthours is even when the distance is exactly 500 (so 1500 gives   *)
(* 2, 2500 gives 2 and 499 gives 0), the same in both places.              *)
(***************************************************************************)
C10_GigawatthoursRounded ==
    \A n \in 1..Len(frontend_data) :
        /\ \A g \in DisplayGroups :
              LET e == frontend_data[n].latest.groups[g]
              IN  NearestTiesToEven(e.megawatthours, e.gigawatthours)
        /\ \A k \in 1..Len(frontend_data[n].history) :
              LET e == frontend_data[n].history[k]
              IN  NearestTiesToEven(e.megawatthours, e.gigawatthours)

\* 1500 gives 2 and 499 gives 0 in snapshot entries, and the history entry of
\* their total 1999 gives 2.
C10_Witness ==
    \E n \in 1..Len(frontend_data) :
        /\ frontend_data[n].latest.groups["Renewables"].megawatthours = 1500
        /\ frontend_data[n].latest.groups["Renewables"].gigawatthours = 2
        /\ frontend_data[n].latest.groups["Fossil Fuels"].megawatthours = 499
        /\ frontend_data[n].latest.groups["Fossil Fuels"].gigawatthours = 0
        /\ \E k \in 1..Len(frontend_data[n].history) :
              /\ frontend_data[n].history[k].megawatthours = 1999
              /\ frontend_data[n].history[k].gigawatthours = 2

====
